---- MODULE Spec2Model ----
(***************************************************************************)
(* Model of the two OLED drivers of sh1106-py:                             *)
(*   src/sh1106.py   class SH1106_I2C     (paged addressing, column offset)*)
(*   src/ssd1306.py  class CustomSSD1306  (horizontal auto-increment)      *)
(* The state is the driver object (oled), the transport writes the most    *)
(* recent call handed to i2c.writeto (bus), and how that call ended; where *)
(* a claim speaks of the panel, the controller that receives the writes.   *)
(***************************************************************************)
EXTENDS Integers, Sequences, FiniteSets, TLC

VARIABLES
    oled,      \* the driver object: class, addr, external_vcc, width, height, pages, buffer
    phase,     \* "Uninitialized" | "Active" | "Failed" (the constructor raised)
    lastCall,  \* [op, arg]: the most recent call on the object
    bus,       \* the i2c.writeto calls that call completed, in order: [addr, data]
    raised,    \* "none" | "OSError" | "ValueError" | "AttributeError"
    panel,     \* the controller the bus leads to: its registers and display RAM
    shown      \* history: the buffer and the writes of every completed show call

vars == <<oled, phase, lastCall, bus, raised, panel, shown>>

(***************************** bounds ***************************************)
\* longest buffer handed directly to write_data
MaxDataLen == 70
\* the transport may fail on any of its first MaxFailAt + 1 writes of a call
MaxFailAt == 7

\* calls followed on a display whose controller is modelled
MaxCalls == 2

(************************* integer helpers **********************************)
Min(a, b) == IF a < b THEN a ELSE b

RECURSIVE BitAnd(_, _)
BitAnd(a, b) ==
    IF a = 0 \/ b = 0 THEN 0
    ELSE ((a % 2) * (b % 2)) + 2 * BitAnd(a \div 2, b \div 2)

RECURSIVE BitOr(_, _)
BitOr(a, b) ==
    IF a = 0 THEN b
    ELSE IF b = 0 THEN a
    ELSE (IF (a % 2) + (b % 2) > 0 THEN 1 ELSE 0) + 2 * BitOr(a \div 2, b \div 2)

ShiftRight4(a) == a \div 16

IsByte(x) == x \in 0..255

RECURSIVE Flatten(_)
Flatten(ss) == IF ss = <<>> THEN <<>> ELSE Head(ss) \o Flatten(Tail(ss))

(*************************** command bytes **********************************)
SET_CONTRAST == 129
SET_ENTIRE_ON == 164
SET_NORM_INV == 166
SET_DISP == 174
SET_MEM_ADDR == 32
SET_COL_ADDR == 33
SET_PAGE_ADDR == 34
SET_DISP_START_LINE == 64
SET_SEG_REMAP == 160
SET_MUX_RATIO == 168
SET_COM_OUT_DIR == 192
SET_DISP_OFFSET == 211
SET_COM_PIN_CFG == 218
SET_DISP_CLK_DIV == 213
SET_PRECHARGE == 217
SET_VCOM_DESEL == 219
SET_CHARGE_PUMP == 141
SH1106_SET_PAGE_ADDR == 176
SH1106_SET_LOW_COL == 0
SH1106_SET_HIGH_COL == 16
DEACTIVATE_SCROLL == 46
\* control bytes of a transport write
CTRL_CMD == 128
CTRL_DATA == 64
\* default bus address
DEFAULT_ADDR == 60

(**************************** inputs ****************************************)
Classes == {"SH1106_I2C", "CustomSSD1306"}
\* panel sizes <<width, height>>: the four of the table, and unlisted ones
\* and one whose height is no multiple of 8
Sizes == {<<128, 64>>, <<128, 32>>, <<96, 16>>, <<64, 32>>, <<64, 64>>, <<40, 8>>, <<40, 12>>}
\* the panels whose controller is modelled: two pages, with and without column offset
PanelSizes == {<<128, 16>>, <<40, 16>>}
Addrs == {DEFAULT_ADDR, 61}
ContrastInputs == {0, 175, 207, 255, 256}
InvertInputs == {0, 1}
\* pixel coordinates: one on every panel and one off every panel
PixelInputs == {<<39, 7>>, <<128, 0>>}

\* a recognisable run of L bytes, all different from their neighbours
DataRun(L) == [i \in 1..L |-> (7 * i + 3) % 256]

(************************** transport framing *******************************)
Write(a, d) == [addr |-> a, data |-> d]

\* a write_cmd framed with the control byte 0x00 of a command stream
write_cmd_stream_control(self, cmd) == << Write(self.addr, <<0, cmd>>) >>

\* write_cmd: one write of the control byte 0x80 and the command byte
write_cmd(self, cmd) == << Write(self.addr, <<CTRL_CMD, cmd>>) >>

chunk_size == 32

\* buf[i:i+chunk_size] for a 0-based i
Slice(buf, i, n) == SubSeq(buf, i + 1, Min(i + n, Len(buf)))

\* a write_data whose chunks are one byte short: buf[i:i+chunk_size-1]
write_data_short_chunk(self, buf) ==
    [k \in 1..((Len(buf) + chunk_size - 1) \div chunk_size) |->
        Write(self.addr, <<CTRL_DATA>> \o Slice(buf, (k - 1) * chunk_size, chunk_size - 1))]

\* a write_data that sends the whole chunks only and drops a shorter last one
write_data_whole_chunks(self, buf) ==
    [k \in 1..(Len(buf) \div chunk_size) |->
        Write(self.addr, <<CTRL_DATA>> \o Slice(buf, (k - 1) * chunk_size, chunk_size))]

\* write_data: for i in range(0, len(buf), chunk_size): writeto(addr, [0x40] + buf[i:i+chunk_size])
write_data(self, buf) ==
    [k \in 1..((Len(buf) + chunk_size - 1) \div chunk_size) |->
        Write(self.addr, <<CTRL_DATA>> \o Slice(buf, (k - 1) * chunk_size, chunk_size))]

\* a bytearray([...]) of a value outside 0..255 raises ValueError before the write
ValidWrite(w) == \A i \in 1..Len(w.data) : IsByte(w.data[i])

FirstInvalid(ws) ==
    LET bad == {i \in 1..Len(ws) : ~ValidWrite(ws[i])}
    IN  IF bad = {} THEN Len(ws) + 1 ELSE CHOOSE i \in bad : \A j \in bad : i <= j

\* the writes a call attempts are ws, the first one that cannot be built is number v;
\* the transport fails on write n + 1 (n = Len(ws): never)
Delivered(ws, v, n) == SubSeq(ws, 1, Min(n, v - 1))

\* a call that swallows the failure of the transport
Outcome_swallowed(ws, v, n) == IF v <= Len(ws) /\ v <= n + 1 THEN "ValueError" ELSE "none"

Outcome(ws, v, n) ==
    IF v <= Len(ws) /\ v <= n + 1 THEN "ValueError"
    ELSE IF n < Len(ws) THEN "OSError"
    ELSE "none"

FailPoints(ws) == (0..Min(MaxFailAt, Len(ws) - 1)) \cup {Len(ws)}

(***************************** framebuf *************************************)
\* framebuf.FrameBuffer.fill on MONO_VLSB: every byte 0x00 or 0xFF
fill(self, c) == [self EXCEPT !.buffer = [i \in 1..Len(self.buffer) |-> IF c = 0 THEN 0 ELSE 255]]

Pow2(k) == CASE k = 0 -> 1 [] k = 1 -> 2 [] k = 2 -> 4 [] k = 3 -> 8
             [] k = 4 -> 16 [] k = 5 -> 32 [] k = 6 -> 64 [] OTHER -> 128

\* framebuf.FrameBuffer.pixel(x, y, c) on MONO_VLSB: byte (y // 8) * width + x, bit y % 8;
\* a coordinate off the panel is ignored
pixel(self, x, y, c) ==
    IF x < 0 \/ x >= self.width \/ y < 0 \/ y >= self.height THEN self
    ELSE LET idx == (y \div 8) * self.width + x + 1
             bit == Pow2(y % 8)
             old == self.buffer[idx]
             has == (old \div bit) % 2 = 1
         IN  [self EXCEPT !.buffer[idx] =
                 IF c # 0 THEN (IF has THEN old ELSE old + bit)
                 ELSE (IF has THEN old - bit ELSE old)]

(************************* SH1106_I2C (src/sh1106.py) ***********************)
\* one write_cmd per element of a command list, in order
write_cmds(self, cmds) == Flatten([i \in 1..Len(cmds) |-> write_cmd(self, cmds[i])])

\* 0x10 if self.external_vcc else 0x14
SH1106_charge_pump(self) == IF self.external_vcc THEN 16 ELSE 20

\* 0x22 if self.external_vcc else 0xF1
SH1106_precharge(self) == IF self.external_vcc THEN 34 ELSE 241

\* SET_COM_PIN_CFG, 0x12
SH1106_com_pins(self) == 18

\* a contrast that follows the power supply, as the other driver's does
SH1106_contrast_by_vcc(self) == IF self.external_vcc THEN 16 ELSE 128

\* SET_CONTRAST, 0x80
SH1106_contrast(self) == 128

\* an initialization that turns the display on before the display modes are set
SH1106_init_commands_on_early(self) ==
    << BitOr(SET_DISP, 0),
       SET_DISP_CLK_DIV, 128,
       SET_MUX_RATIO, self.height - 1,
       SET_DISP_OFFSET, 0,
       BitOr(SET_DISP_START_LINE, 0),
       SET_CHARGE_PUMP, SH1106_charge_pump(self),
       BitOr(SET_SEG_REMAP, 1),
       BitOr(SET_COM_OUT_DIR, 8),
       SET_COM_PIN_CFG, SH1106_com_pins(self),
       SET_CONTRAST, SH1106_contrast(self),
       SET_PRECHARGE, SH1106_precharge(self),
       SET_VCOM_DESEL, 64,
       BitOr(SET_DISP, 1),
       SET_ENTIRE_ON,
       SET_NORM_INV >>

SH1106_init_commands(self) ==
    << BitOr(SET_DISP, 0),
       SET_DISP_CLK_DIV, 128,
       SET_MUX_RATIO, self.height - 1,
       SET_DISP_OFFSET, 0,
       BitOr(SET_DISP_START_LINE, 0),
       SET_CHARGE_PUMP, SH1106_charge_pump(self),
       BitOr(SET_SEG_REMAP, 1),
       BitOr(SET_COM_OUT_DIR, 8),
       SET_COM_PIN_CFG, SH1106_com_pins(self),
       SET_CONTRAST, SH1106_contrast(self),
       SET_PRECHARGE, SH1106_precharge(self),
       SET_VCOM_DESEL, 64,
       SET_ENTIRE_ON,
       SET_NORM_INV,
       BitOr(SET_DISP, 1) >>

\* a column offset of 2 for every width
SH1106_col_offset_always(self) == 2

\* col_offset = 2 if self.width == 128 else 0
SH1106_col_offset(self) == IF self.width = 128 THEN 2 ELSE 0

\* a show that sets the column address before the page address
SH1106_show_page_column_first(self, page) ==
    LET col_offset == SH1106_col_offset(self)
        start == page * self.width
        end == start + self.width
        page_data == SubSeq(self.buffer, start + 1, Min(end, Len(self.buffer)))
    IN  write_cmd(self, BitOr(SH1106_SET_LOW_COL, BitAnd(col_offset, 15)))
        \o write_cmd(self, BitOr(SH1106_SET_HIGH_COL, ShiftRight4(col_offset)))
        \o write_cmd(self, BitOr(SH1106_SET_PAGE_ADDR, page))
        \o write_data(self, page_data)

\* the body of show's loop for one page
SH1106_show_page(self, page) ==
    LET col_offset == SH1106_col_offset(self)
        start == page * self.width
        end == start + self.width
        page_data == SubSeq(self.buffer, start + 1, Min(end, Len(self.buffer)))
    IN  write_cmd(self, BitOr(SH1106_SET_PAGE_ADDR, page))
        \o write_cmd(self, BitOr(SH1106_SET_LOW_COL, BitAnd(col_offset, 15)))
        \o write_cmd(self, BitOr(SH1106_SET_HIGH_COL, ShiftRight4(col_offset)))
        \o write_data(self, page_data)

\* show: for page in range(self.pages)
SH1106_show(self) == Flatten([p \in 1..self.pages |-> SH1106_show_page(self, p - 1)])

\* an init_display that shows the cleared frame before the init commands
SH1106_init_display_show_first(self) ==
    SH1106_show(fill(self, 0)) \o write_cmds(self, SH1106_init_commands(self))

\* init_display: the init commands, then fill(0) and show()
SH1106_init_display(self) ==
    write_cmds(self, SH1106_init_commands(self)) \o SH1106_show(fill(self, 0))

\* a rotate whose normal orientation restores the COM direction alone
SH1106_rotate_com_only(self, rotate) ==
    IF rotate
    THEN write_cmd(self, SET_COM_OUT_DIR) \o write_cmd(self, SET_SEG_REMAP)
    ELSE write_cmd(self, BitOr(SET_COM_OUT_DIR, 8)) \o write_cmd(self, SET_SEG_REMAP)

\* rotate: COM output direction and segment remap, both plain or both flipped
SH1106_rotate(self, rotate) ==
    IF rotate
    THEN write_cmd(self, SET_COM_OUT_DIR) \o write_cmd(self, SET_SEG_REMAP)
    ELSE write_cmd(self, BitOr(SET_COM_OUT_DIR, 8)) \o write_cmd(self, BitOr(SET_SEG_REMAP, 1))

(************************ CustomSSD1306 (src/ssd1306.py) ********************)
\* a cascade that looks at the height alone
SSD1306_com_pins_by_height(self) == IF self.height = 64 THEN 18 ELSE 2

\* the size cascade of init_display: com_pins
SSD1306_com_pins(self) ==
    IF self.width = 128 /\ self.height = 64 THEN 18
    ELSE IF self.width = 128 /\ self.height = 32 THEN 2
    ELSE IF self.width = 96 /\ self.height = 16 THEN 2
    ELSE IF self.width = 64 /\ self.height = 32 THEN 18
    ELSE 2

\* the size cascade of init_display: contrast
SSD1306_contrast(self) ==
    IF self.width = 128 /\ self.height = 64 THEN (IF ~self.external_vcc THEN 207 ELSE 159)
    ELSE IF self.width = 128 /\ self.height = 32 THEN 143
    ELSE IF self.width = 96 /\ self.height = 16 THEN (IF ~self.external_vcc THEN 175 ELSE 16)
    ELSE IF self.width = 64 /\ self.height = 32 THEN (IF ~self.external_vcc THEN 207 ELSE 16)
    ELSE 143

\* if self.external_vcc: write_cmd(0x10) else: write_cmd(0x14)
SSD1306_charge_pump(self) == IF self.external_vcc THEN 16 ELSE 20

\* a precharge with its two branches exchanged
SSD1306_precharge_swapped(self) == IF self.external_vcc THEN 241 ELSE 34

\* if self.external_vcc: write_cmd(0x22) else: write_cmd(0xF1)
SSD1306_precharge(self) == IF self.external_vcc THEN 34 ELSE 241

SSD1306_init_commands(self) ==
    << BitOr(SET_DISP, 0),
       SET_DISP_CLK_DIV, 128,
       SET_MUX_RATIO, self.height - 1,
       SET_DISP_OFFSET, 0,
       BitOr(SET_DISP_START_LINE, 0),
       SET_CHARGE_PUMP, SSD1306_charge_pump(self),
       SET_MEM_ADDR, 0,
       BitOr(SET_SEG_REMAP, 1),
       BitOr(SET_COM_OUT_DIR, 8),
       SET_COM_PIN_CFG, SSD1306_com_pins(self),
       SET_CONTRAST, SSD1306_contrast(self),
       SET_PRECHARGE, SSD1306_precharge(self),
       SET_VCOM_DESEL, 64,
       SET_ENTIRE_ON,
       SET_NORM_INV,
       DEACTIVATE_SCROLL,
       BitOr(SET_DISP, 1) >>

\* a show whose column range ends at width instead of width - 1
SSD1306_show_end_at_width(self) ==
    write_cmd(self, SET_COL_ADDR)
    \o write_cmd(self, 0)
    \o write_cmd(self, self.width)
    \o write_cmd(self, SET_PAGE_ADDR)
    \o write_cmd(self, 0)
    \o write_cmd(self, self.pages - 1)
    \o write_data(self, self.buffer)

SSD1306_show(self) ==
    write_cmd(self, SET_COL_ADDR)
    \o write_cmd(self, 0)
    \o write_cmd(self, self.width - 1)
    \o write_cmd(self, SET_PAGE_ADDR)
    \o write_cmd(self, 0)
    \o write_cmd(self, self.pages - 1)
    \o write_data(self, self.buffer)

SSD1306_init_display(self) ==
    write_cmds(self, SSD1306_init_commands(self)) \o SSD1306_show(fill(self, 0))

(********************* operations common to both classes ********************)
IsPaged(self) == self.class = "SH1106_I2C"

\* a show that sends nothing when the call before it was a completed show
show_if_changed(self) ==
    IF lastCall.op = "show" /\ raised = "none" THEN <<>>
    ELSE IF IsPaged(self) THEN SH1106_show(self) ELSE SSD1306_show(self)

show(self) == IF IsPaged(self) THEN SH1106_show(self) ELSE SSD1306_show(self)

init_display(self) ==
    IF IsPaged(self) THEN SH1106_init_display(self) ELSE SSD1306_init_display(self)

\* a poweroff that writes the display-on command
poweroff_display_on(self) == write_cmd(self, 175)

poweroff(self) == write_cmd(self, BitOr(SET_DISP, 0))

poweron(self) == write_cmd(self, BitOr(SET_DISP, 1))

\* a contrast that writes the operand before the opcode
contrast_operand_first(self, c) == write_cmd(self, c) \o write_cmd(self, SET_CONTRAST)

contrast(self, c) == write_cmd(self, SET_CONTRAST) \o write_cmd(self, c)

invert(self, inv) == write_cmd(self, BitOr(SET_NORM_INV, BitAnd(inv, 1)))

\* __init__: the fields, the zeroed bytearray of pages * width bytes
New(class, width, height, addr, external_vcc) ==
    [class |-> class, addr |-> addr, external_vcc |-> external_vcc,
     width |-> width, height |-> height, pages |-> height \div 8,
     buffer |-> [i \in 1..((height \div 8) * width) |-> 0]]

NoObject == [class |-> "none", addr |-> 0, external_vcc |-> FALSE,
             width |-> 0, height |-> 0, pages |-> 0, buffer |-> <<>>]

(****************** reading the bus as the controller does ******************)
IsCmdWrite(w) == Len(w.data) = 2 /\ w.data[1] = 128

IsDataWrite(w) == Len(w.data) >= 2 /\ w.data[1] = 64

\* the bytes of a write after its control byte
Payload(w) == Tail(w.data)

\* the data bytes of the data writes among ws, in order
DataBytes(ws) ==
    Flatten([i \in 1..Len(ws) |-> IF IsDataWrite(ws[i]) THEN Payload(ws[i]) ELSE <<>>])

\* the command bytes of the command writes among ws, in order
CmdBytes(ws) ==
    Flatten([i \in 1..Len(ws) |-> IF IsCmdWrite(ws[i]) THEN Payload(ws[i]) ELSE <<>>])

\* the elements of a finite set of integers in ascending order
RECURSIVE Ascending(_)
Ascending(S) ==
    IF S = {} THEN <<>>
    ELSE LET m == CHOOSE x \in S : \A y \in S : x <= y
         IN  <<m>> \o Ascending(S \ {m})

\* ws cut into blocks: each block is a maximal run of command writes (its header)
\* and the data writes that follow it up to the next command write
Blocks(ws) ==
    LET starts == Ascending({i \in 1..Len(ws) :
                      i = 1 \/ (IsCmdWrite(ws[i]) /\ ~IsCmdWrite(ws[i - 1]))})
        last(k) == IF k = Len(starts) THEN Len(ws) ELSE starts[k + 1] - 1
    IN  [k \in 1..Len(starts) |->
            [cmds |-> CmdBytes(SubSeq(ws, starts[k], last(k))),
             data |-> DataBytes(SubSeq(ws, starts[k], last(k)))]]

\* how many operand bytes the controller reads after an opcode
OperandCount(op) ==
    IF op \in {129, 141, 168, 211, 213, 217, 218, 219, 32} THEN 1
    ELSE IF op \in {33, 34} THEN 2
    ELSE 0

\* ws decoded: one element per opcode with the operands that follow it, framed
\* when every operand it needs is there and is a command write of its own
RECURSIVE Decode(_)
Decode(ws) ==
    IF ws = <<>> THEN <<>>
    ELSE IF ~IsCmdWrite(Head(ws))
    THEN << [op |-> -1, args |-> Head(ws).data, framed |-> IsDataWrite(Head(ws))] >>
         \o Decode(Tail(ws))
    ELSE LET op == Head(ws).data[2]
             k == Min(OperandCount(op), Len(ws) - 1)
         IN  << [op |-> op,
                 args |-> [j \in 1..k |-> ws[j + 1].data[2]],
                 framed |-> /\ k = OperandCount(op)
                            /\ \A j \in 1..k : IsCmdWrite(ws[j + 1])] >>
             \o Decode(SubSeq(ws, k + 2, Len(ws)))

\* the operands the bus gave to opcode op, one element per occurrence of op
OperandsOf(ws, op) ==
    LET d == Decode(ws)
    IN  {d[i].args : i \in {j \in 1..Len(d) : d[j].op = op}}

(************** the controller behind the bus, and what was shown ***********)
\* pages and columns of the controller's display RAM
RamPages == 8

RamCols(self) == IF IsPaged(self) THEN 132 ELSE 128

\* what the display RAM holds before anything was written to it
RamReset == 170

\* no controller is attached: the transport only records the writes
NoPanel ==
    [attached |-> FALSE, calls |-> 0, on |-> FALSE, contrast |-> 0, com |-> 0, seg |-> 0,
     pending |-> <<>>, page |-> 0, col |-> 0,
     colStart |-> 0, colEnd |-> 0, pageStart |-> 0, pageEnd |-> 0, ram |-> <<>>]

\* an attached controller after power-on reset
PowerOnReset(self) ==
    [attached |-> TRUE, calls |-> 0, on |-> FALSE, contrast |-> 127, com |-> 192, seg |-> 160,
     pending |-> <<>>, page |-> 0, col |-> 0,
     colStart |-> 0, colEnd |-> RamCols(self) - 1, pageStart |-> 0, pageEnd |-> RamPages - 1,
     ram |-> [p \in 0..(RamPages - 1) |-> [c \in 0..(RamCols(self) - 1) |-> RamReset]]]

\* a complete command (opcode and operands) takes effect
PanelApply(self, pan, c) ==
    LET op == c[1]
    IN  IF op = 174 THEN [pan EXCEPT !.on = FALSE]
        ELSE IF op = 175 THEN [pan EXCEPT !.on = TRUE]
        ELSE IF op = 129 THEN [pan EXCEPT !.contrast = c[2]]
        ELSE IF op \in {160, 161} THEN [pan EXCEPT !.seg = op]
        ELSE IF op \in {192, 200} THEN [pan EXCEPT !.com = op]
        ELSE IF IsPaged(self) /\ op \in 176..191 THEN [pan EXCEPT !.page = op - 176]
        ELSE IF IsPaged(self) /\ op \in 0..15
             THEN [pan EXCEPT !.col = (pan.col \div 16) * 16 + op]
        ELSE IF IsPaged(self) /\ op \in 16..31
             THEN [pan EXCEPT !.col = (op - 16) * 16 + (pan.col % 16)]
        ELSE IF ~IsPaged(self) /\ op = 33
             THEN [pan EXCEPT !.colStart = c[2], !.colEnd = c[3], !.col = c[2]]
        ELSE IF ~IsPaged(self) /\ op = 34
             THEN [pan EXCEPT !.pageStart = c[2], !.pageEnd = c[3], !.page = c[2]]
        ELSE pan

\* one command byte: an operand of the pending opcode, or a new opcode
PanelCmd(self, pan, byte) ==
    IF pan.pending # <<>>
    THEN LET c == Append(pan.pending, byte)
         IN  IF Len(c) = 1 + OperandCount(c[1])
             THEN PanelApply(self, [pan EXCEPT !.pending = <<>>], c)
             ELSE [pan EXCEPT !.pending = c]
    ELSE IF OperandCount(byte) > 0 THEN [pan EXCEPT !.pending = <<byte>>]
    ELSE PanelApply(self, pan, <<byte>>)

\* the paged controller stores each data byte at (page, col) and advances col
PagedData(pan, bytes) ==
    [pan EXCEPT
        !.col = pan.col + Len(bytes),
        !.ram = [p \in DOMAIN pan.ram |->
                    IF p # pan.page THEN pan.ram[p]
                    ELSE [c \in DOMAIN pan.ram[p] |->
                            IF c >= pan.col /\ c < pan.col + Len(bytes)
                            THEN bytes[c - pan.col + 1]
                            ELSE pan.ram[p][c]]]]

\* the column and page window of the auto-increment controller is usable
WindowOk(self, pan) ==
    /\ 0 <= pan.colStart /\ pan.colStart <= pan.colEnd /\ pan.colEnd < RamCols(self)
    /\ 0 <= pan.pageStart /\ pan.pageStart <= pan.pageEnd /\ pan.pageEnd < RamPages
    /\ pan.col \in pan.colStart..pan.colEnd
    /\ pan.page \in pan.pageStart..pan.pageEnd

\* the auto-increment controller stores each data byte at (page, col) and advances
\* col, to the next page at the end of the column window, to the first page at the
\* end of the page window; a window that is not usable stores nothing
AutoData(self, pan, bytes) ==
    IF ~WindowOk(self, pan) THEN pan
    ELSE LET W == pan.colEnd - pan.colStart + 1
             H == pan.pageEnd - pan.pageStart + 1
             lin0 == (pan.page - pan.pageStart) * W + (pan.col - pan.colStart)
             lin1 == (lin0 + Len(bytes)) % (W * H)
             \* how far cell (p, c) is ahead of the pointer
             ahead(p, c) == ((p - pan.pageStart) * W + (c - pan.colStart) - lin0) % (W * H)
             \* the last byte stored at a cell that is k ahead, k < Len(bytes)
             lastAt(k) == bytes[k + ((Len(bytes) - 1 - k) \div (W * H)) * (W * H) + 1]
         IN  [pan EXCEPT
                !.page = pan.pageStart + (lin1 \div W),
                !.col = pan.colStart + (lin1 % W),
                !.ram = [p \in DOMAIN pan.ram |->
                            IF p \notin pan.pageStart..pan.pageEnd THEN pan.ram[p]
                            ELSE [c \in DOMAIN pan.ram[p] |->
                                    IF c \in pan.colStart..pan.colEnd /\ ahead(p, c) < Len(bytes)
                                    THEN lastAt(ahead(p, c))
                                    ELSE pan.ram[p][c]]]]

\* one transport write reaches the controller
PanelWrite(self, pan, w) ==
    IF IsCmdWrite(w) THEN PanelCmd(self, pan, w.data[2])
    ELSE IF ~IsDataWrite(w) THEN pan
    ELSE IF IsPaged(self) THEN PagedData(pan, Payload(w))
    ELSE AutoData(self, pan, Payload(w))

RECURSIVE PanelFeed(_, _, _, _)
PanelFeed(self, pan, ws, i) ==
    IF i > Len(ws) THEN pan
    ELSE LET next == PanelWrite(self, pan, ws[i])
         IN  IF next.attached THEN PanelFeed(self, next, ws, i + 1) ELSE next

\* the controller after the writes ws were delivered to it
PanelAfter(self, pan, ws) == IF ~pan.attached THEN pan ELSE PanelFeed(self, pan, ws, 1)

\* the controller after one more call of the driver, whose writes ws were delivered
PanelAfterCall(self, pan, ws) ==
    IF ~pan.attached THEN pan
    ELSE [PanelFeed(self, pan, ws, 1) EXCEPT !.calls = pan.calls + 1]

\* the completed show calls are not recorded
NoHistory == [tracked |-> FALSE, seen |-> {}, repeat |-> FALSE]

\* no show call has completed yet
EmptyHistory == [tracked |-> TRUE, seen |-> {}, repeat |-> FALSE]

\* a show of buffer buf completed with the writes ws
Recorded(hist, buf, ws) ==
    IF ~hist.tracked THEN hist
    ELSE [hist EXCEPT !.seen = @ \cup {[buffer |-> buf, bus |-> ws]},
                      !.repeat = \E s \in hist.seen : s.buffer = buf]

(****************************** actions *************************************)
Init ==
    /\ oled = NoObject
    /\ phase = "Uninitialized"
    /\ lastCall = [op |-> "none", arg |-> 0]
    /\ bus = <<>>
    /\ raised = "none"
    /\ panel = NoPanel
    /\ shown = NoHistory

\* a call of self whose transport writes are ws: they are delivered, to the
\* controller too, up to the first failure
Transmit(self, ws) ==
    LET v == FirstInvalid(ws)
    IN  \E n \in FailPoints(ws) :
            /\ bus' = Delivered(ws, v, n)
            /\ raised' = Outcome(ws, v, n)
            /\ panel' = PanelAfterCall(self, panel, Delivered(ws, v, n))

\* framebuf.FrameBuffer(buffer, width, height, MONO_VLSB) of a MicroPython that
\* checks the buffer size needs ((height + 7) // 8) * width bytes
framebuf_fits(self) == ((self.height + 7) \div 8) * self.width <= Len(self.buffer)

Construct ==
    /\ phase = "Uninitialized"
    /\ \E class \in Classes, size \in Sizes, addr \in Addrs, external_vcc \in BOOLEAN :
        LET self == New(class, size[1], size[2], addr, external_vcc)
            ws == init_display(self)
        IN  /\ \/ /\ Transmit(self, ws)
                  /\ oled' = fill(self, 0)
               \/ /\ ~framebuf_fits(self)
                  /\ bus' = <<>>
                  /\ raised' = "ValueError"
                  /\ oled' = self
                  /\ UNCHANGED panel
            /\ phase' = IF raised' = "none" THEN "Active" ELSE "Failed"
            /\ lastCall' = [op |-> "init", arg |-> 0]
            /\ UNCHANGED shown

\* a call that clears the buffer once its writes are done
Call_clearing(op, arg, ws) ==
    /\ phase = "Active"
    /\ panel.calls < MaxCalls
    /\ Transmit(oled, ws)
    /\ lastCall' = [op |-> op, arg |-> arg]
    /\ shown' = IF op = "show" /\ raised' = "none" THEN Recorded(shown, oled.buffer, bus')
                ELSE shown
    /\ oled' = fill(oled, 0)
    /\ UNCHANGED phase

\* a method that reads the object and writes to the transport: show, poweroff,
\* poweron, contrast, invert, rotate
Call(op, arg, ws) ==
    /\ phase = "Active"
    /\ panel.calls < MaxCalls
    /\ Transmit(oled, ws)
    /\ lastCall' = [op |-> op, arg |-> arg]
    /\ shown' = IF op = "show" /\ raised' = "none" THEN Recorded(shown, oled.buffer, bus')
                ELSE shown
    /\ UNCHANGED <<oled, phase>>

Show == Call("show", 0, show(oled))

PowerOff == Call("poweroff", 0, poweroff(oled))

PowerOn == Call("poweron", 0, poweron(oled))

Contrast == \E c \in ContrastInputs : Call("contrast", c, contrast(oled, c))

Invert == \E inv \in InvertInputs : Call("invert", inv, invert(oled, inv))

\* CustomSSD1306 defines no rotate: the call raises AttributeError and writes nothing
Rotate ==
    \E r \in BOOLEAN :
        IF IsPaged(oled)
        THEN Call("rotate", r, SH1106_rotate(oled, r))
        ELSE /\ phase = "Active"
             /\ bus' = <<>>
             /\ raised' = "AttributeError"
             /\ lastCall' = [op |-> "rotate", arg |-> r]
             /\ UNCHANGED <<oled, phase, panel, shown>>

Draw(op, arg, self) ==
    /\ phase = "Active"
    /\ panel.calls < MaxCalls
    /\ oled' = self
    /\ bus' = <<>>
    /\ raised' = "none"
    /\ lastCall' = [op |-> op, arg |-> arg]
    /\ UNCHANGED <<phase, panel, shown>>

Fill == \E c \in {0, 1} : Draw("fill", c, fill(oled, c))

Pixel ==
    \E pt \in PixelInputs, c \in {0, 1} :
        Draw("pixel", <<pt[1], pt[2], c>>, pixel(oled, pt[1], pt[2], c))

Next ==
    \/ Construct
    \/ Show
    \/ PowerOff
    \/ PowerOn
    \/ Contrast
    \/ Invert
    \/ Rotate
    \/ Fill
    \/ Pixel

Spec == Init /\ [][Next]_vars

(*************** write_data applied to data runs of every length ************)
\* the objects write_data is called on: one of each class and address
FramingObjects ==
    {fill(New(class, 40, 8, addr, FALSE), 0) : class \in Classes, addr \in Addrs}

InitFraming ==
    /\ oled \in FramingObjects
    /\ phase = "Active"
    /\ \E L \in 0..MaxDataLen : lastCall = [op |-> "call_write_data", arg |-> DataRun(L)]
    /\ bus = <<>>
    /\ raised = "none"
    /\ panel = NoPanel
    /\ shown = NoHistory

WriteData ==
    /\ lastCall.op = "call_write_data"
    /\ Call("write_data", lastCall.arg, write_data(oled, lastCall.arg))

NextFraming == WriteData

SpecFraming == InitFraming /\ [][NextFraming]_vars

(********** the calls on a constructed display with its controller **********)
\* the state in which the constructor returned
Constructed(self, pan, hist) ==
    /\ oled = fill(self, 0)
    /\ phase = "Active"
    /\ lastCall = [op |-> "init", arg |-> 0]
    /\ bus = init_display(self)
    /\ raised = "none"
    /\ panel = PanelAfter(self, pan, init_display(self))
    /\ shown = hist

NextActive ==
    \/ Show
    \/ PowerOff
    \/ PowerOn
    \/ Contrast
    \/ Invert
    \/ Rotate
    \/ Fill
    \/ Pixel

InitPanel ==
    \E class \in Classes, size \in PanelSizes, external_vcc \in BOOLEAN :
        LET self == New(class, size[1], size[2], DEFAULT_ADDR, external_vcc)
        IN  Constructed(self, PowerOnReset(self), NoHistory)

SpecPanel == InitPanel /\ [][NextActive]_vars

InitHistory ==
    \E class \in Classes :
        Constructed(New(class, 40, 16, DEFAULT_ADDR, FALSE), NoPanel, EmptyHistory)

SpecHistory == InitHistory /\ [][NextActive]_vars

TypeOK ==
    /\ phase \in {"Uninitialized", "Active", "Failed"}
    /\ raised \in {"none", "OSError", "ValueError", "AttributeError"}
    /\ \A i \in 1..Len(bus) : ValidWrite(bus[i])
    /\ Len(oled.buffer) = oled.pages * oled.width
    /\ panel.attached \in BOOLEAN
    /\ panel.calls \in 0..MaxCalls
    /\ panel.attached => \A i \in 1..Len(panel.pending) : IsByte(panel.pending[i])
    /\ shown.tracked \in BOOLEAN
    /\ ~shown.tracked => shown = NoHistory

ShowDone == phase = "Active" /\ lastCall.op = "show" /\ raised = "none"

InitDone == lastCall.op = "init" /\ raised = "none"

(******************************* claims *************************************)
\* C1: a completed SH1106_I2C.show is, for each page p = 0 .. pages-1 in ascending
\* order and once, a header of the three command writes page-select (0xB0 | p),
\* low-column (0x00 | (offset & 0x0F)), high-column (0x10 | (offset >> 4)), followed
\* by data writes that carry exactly buffer[p*width .. (p+1)*width - 1]; every
\* write is a command or a data write, so no data precedes its header and no two
\* pages' data follow one another without a header.
C1_PagedShowBlocks ==
    (ShowDone /\ IsPaged(oled)) =>
        LET bl == Blocks(bus)
        IN  /\ \A i \in 1..Len(bus) : IsCmdWrite(bus[i]) \/ IsDataWrite(bus[i])
            /\ Len(bl) = oled.pages
            /\ \E off \in 0..255 :
                 \A p \in 0..(oled.pages - 1) :
                    /\ bl[p + 1].cmds = << BitOr(176, p),
                                           BitOr(0, BitAnd(off, 15)),
                                           BitOr(16, off \div 16) >>
                    /\ bl[p + 1].data =
                         SubSeq(oled.buffer, p * oled.width + 1, (p + 1) * oled.width)

\* C1 witness: 128x64 after fill(1) and show: 8 blocks, each 128 bytes of 0xFF
C1_Witness ==
    /\ ShowDone /\ IsPaged(oled)
    /\ oled.width = 128 /\ oled.height = 64
    /\ \A i \in 1..Len(oled.buffer) : oled.buffer[i] = 255
    /\ Len(Blocks(bus)) = 8
    /\ \A k \in 1..8 : Blocks(bus)[k].data = [i \in 1..128 |-> 255]

\* C2: a completed CustomSSD1306.show is exactly the six command writes 0x21, 0,
\* width-1, 0x22, 0, pages-1, in this order, and then data writes only, whose
\* payloads concatenated are the whole buffer.
C2_AutoShow ==
    (ShowDone /\ ~IsPaged(oled)) =>
        /\ Len(bus) >= 6
        /\ \A i \in 1..6 : IsCmdWrite(bus[i])
        /\ CmdBytes(SubSeq(bus, 1, 6)) = <<33, 0, oled.width - 1, 34, 0, oled.pages - 1>>
        /\ \A i \in 7..Len(bus) : IsDataWrite(bus[i])
        /\ DataBytes(SubSeq(bus, 7, Len(bus))) = oled.buffer
        /\ Len(oled.buffer) = oled.pages * oled.width

\* C2 witness: a completed show of a 128x64 auto-increment panel with a drawn pixel
C2_Witness ==
    /\ ShowDone /\ ~IsPaged(oled)
    /\ oled.width = 128 /\ oled.height = 64
    /\ \E i \in 1..Len(oled.buffer) : oled.buffer[i] \notin {0, 255}
    /\ Len(bus) > 7

WriteDataDone == lastCall.op = "write_data" /\ raised = "none"

\* ceil(a / b) for b > 0
CeilDiv(a, b) == (a + b - 1) \div b

\* C3: with M the I2C buffer limit the code names (32), write_data splits a run of
\* L bytes into chunks of at most M-1 data bytes, so every transport write, control
\* byte included, is at most M bytes long, and there are ceil(L / (M-1)) writes.
C3_ChunkWithinLimit ==
    WriteDataDone =>
        /\ \A i \in 1..Len(bus) : Len(Payload(bus[i])) <= chunk_size - 1
        /\ \A i \in 1..Len(bus) : Len(bus[i].data) <= chunk_size
        /\ Len(bus) = CeilDiv(Len(lastCall.arg), chunk_size - 1)

\* C4: every write of a completed write_data starts with 0x40 and carries at least
\* one data byte, and the payloads without the control bytes, concatenated in
\* write order, are the original run; a run of length 0 produces no write.
C4_FramingRoundTrip ==
    WriteDataDone =>
        /\ \A i \in 1..Len(bus) :
              /\ bus[i].data[1] = 64
              /\ Len(bus[i].data) >= 2
        /\ Flatten([i \in 1..Len(bus) |-> Tail(bus[i].data)]) = lastCall.arg
        /\ (Len(lastCall.arg) = 0 => bus = <<>>)

\* C4 witness: a run longer than two chunks went out in three writes
C4_Witness ==
    /\ WriteDataDone
    /\ Len(lastCall.arg) > 2 * chunk_size
    /\ Len(bus) = 3
    /\ bus[3].data[1] = 64

\* C5: every transport write of every call goes to the configured address and is a
\* command write of exactly two bytes [0x80, cmd] or a data write starting with
\* 0x40; in a call that completed, every opcode is followed by its operands as
\* command writes of their own, opcode first.
C5_CommandFraming ==
    /\ \A i \in 1..Len(bus) :
          /\ bus[i].addr = oled.addr
          /\ IsCmdWrite(bus[i]) \/ IsDataWrite(bus[i])
    /\ (raised = "none" => \A i \in 1..Len(Decode(bus)) : Decode(bus)[i].framed)

\* C5 witness: contrast(207) completed on a display at the non-default address
C5_Witness ==
    /\ phase = "Active" /\ lastCall.op = "contrast" /\ raised = "none"
    /\ lastCall.arg = 207
    /\ oled.addr = 61
    /\ Len(bus) = 2
    /\ Decode(bus) = << [op |-> 129, args |-> <<207>>, framed |-> TRUE] >>

\* C6: in every completed paged show the low-column and high-column commands are
\* 0x02 and 0x10 when width = 128, and 0x00 and 0x10 for every other width.
C6_ColumnOffset ==
    (ShowDone /\ IsPaged(oled)) =>
        \A k \in 1..Len(Blocks(bus)) :
            /\ Len(Blocks(bus)[k].cmds) = 3
            /\ Blocks(bus)[k].cmds[2] = (IF oled.width = 128 THEN 2 ELSE 0)
            /\ Blocks(bus)[k].cmds[3] = 16

\* C6 witness: a completed paged show of a 64x64 panel
C6_Witness ==
    /\ ShowDone /\ IsPaged(oled)
    /\ oled.width = 64 /\ oled.height = 64
    /\ Len(Blocks(bus)) = 8
    /\ Blocks(bus)[8].cmds = <<183, 0, 16>>

\* the initialization order of the specification; AnyOperand stands for an operand
\* whose value the order does not fix
AnyOperand == 0 - 1

InitOrder(self) ==
    <<174, 213, 128, 168, self.height - 1, 211, 0, 64, 141, AnyOperand>>
    \o (IF IsPaged(self) THEN <<>> ELSE <<32, 0>>)
    \o <<161, 200, 218, AnyOperand, 129, AnyOperand, 217, AnyOperand, 219, AnyOperand, 164, 166>>
    \o (IF IsPaged(self) THEN <<>> ELSE <<46>>)
    \o <<175>>

\* C7: the writes of construction are, from the first on, the command writes of the
\* initialization order: display-off first, display-on only after all the others,
\* and no data write before it.
C7_InitOrder ==
    lastCall.op = "init" =>
        LET order == InitOrder(oled)
        IN  /\ \A i \in 1..Min(Len(bus), Len(order)) :
                  /\ IsCmdWrite(bus[i])
                  /\ order[i] = AnyOperand \/ bus[i].data[2] = order[i]
            /\ (raised = "none" => Len(bus) > Len(order))

\* C7 witness: a completed construction of the auto-increment driver
C7_Witness ==
    /\ InitDone /\ ~IsPaged(oled) /\ phase = "Active"
    /\ bus[1].data = <<128, 174>>
    /\ bus[26].data = <<128, 175>>

\* the profile table of the auto-increment family: <<com_pin_config, contrast>>
ProfileTable(w, h, vcc) ==
    CASE w = 128 /\ h = 64 -> <<18, IF vcc THEN 159 ELSE 207>>
      [] w = 128 /\ h = 32 -> <<2, 143>>
      [] w = 96 /\ h = 16 -> <<2, IF vcc THEN 16 ELSE 175>>
      [] w = 64 /\ h = 32 -> <<18, IF vcc THEN 16 ELSE 207>>
      [] OTHER -> <<2, 143>>

\* C8: construction of the auto-increment driver writes, after the COM-pin-config
\* opcode and after the contrast opcode, the operands of the profile table, and
\* fails for no size unless the transport fails; a height that is no multiple of 8
\* may be refused by framebuf before the table is looked at (C15), for no other
\* reason is a construction refused.
C8_AutoProfile ==
    (lastCall.op = "init" /\ ~IsPaged(oled)) =>
        LET row == ProfileTable(oled.width, oled.height, oled.external_vcc)
            d == Decode(bus)
        IN  /\ \A i \in 1..Len(d) :
                  /\ (d[i].op = 218 /\ d[i].framed) => d[i].args = <<row[1]>>
                  /\ (d[i].op = 129 /\ d[i].framed) => d[i].args = <<row[2]>>
            /\ \/ raised \in {"none", "OSError"}
               \/ raised = "ValueError" /\ bus = <<>> /\ oled.height % 8 # 0
            /\ (raised = "none" =>
                  /\ phase = "Active"
                  /\ OperandsOf(bus, 218) = {<<row[1]>>}
                  /\ OperandsOf(bus, 129) = {<<row[2]>>})

\* C8 witness: completed constructions of 64x32 with external Vcc (0x12, 0x10)
C8_Witness ==
    /\ InitDone /\ ~IsPaged(oled)
    /\ oled.width = 64 /\ oled.height = 32 /\ oled.external_vcc
    /\ OperandsOf(bus, 218) = {<<18>>}
    /\ OperandsOf(bus, 129) = {<<16>>}

\* C9: construction of either driver writes 0x14 (0x10 with external Vcc) after
\* the charge-pump opcode and 0xF1 (0x22 with external Vcc) after the precharge
\* opcode, whatever the size.
C9_PowerSupply ==
    lastCall.op = "init" =>
        LET d == Decode(bus)
        IN  /\ \A i \in 1..Len(d) :
                  /\ (d[i].op = 141 /\ d[i].framed) =>
                        d[i].args = << IF oled.external_vcc THEN 16 ELSE 20 >>
                  /\ (d[i].op = 217 /\ d[i].framed) =>
                        d[i].args = << IF oled.external_vcc THEN 34 ELSE 241 >>
            /\ (raised = "none" =>
                  /\ Cardinality(OperandsOf(bus, 141)) = 1
                  /\ Cardinality(OperandsOf(bus, 217)) = 1)

\* C9 witness: a completed construction of the auto-increment driver with external Vcc
C9_Witness ==
    /\ InitDone /\ ~IsPaged(oled) /\ oled.external_vcc
    /\ OperandsOf(bus, 141) = {<<16>>}
    /\ OperandsOf(bus, 217) = {<<34>>}

\* C10: construction of the paged driver writes COM-pin-config operand 0x12 and
\* contrast operand 0x80 for every size and power-supply mode.
C10_PagedProfile ==
    (lastCall.op = "init" /\ IsPaged(oled)) =>
        LET d == Decode(bus)
        IN  /\ \A i \in 1..Len(d) :
                  /\ (d[i].op = 218 /\ d[i].framed) => d[i].args = <<18>>
                  /\ (d[i].op = 129 /\ d[i].framed) => d[i].args = <<128>>
            /\ (raised = "none" =>
                  /\ OperandsOf(bus, 218) = {<<18>>}
                  /\ OperandsOf(bus, 129) = {<<128>>})

\* C10 witness: a completed construction of a 96x16 paged panel with external Vcc
C10_Witness ==
    /\ InitDone /\ IsPaged(oled)
    /\ oled.width = 96 /\ oled.height = 16 /\ oled.external_vcc
    /\ OperandsOf(bus, 218) = {<<18>>}
    /\ OperandsOf(bus, 129) = {<<128>>}

\* the opcodes a controller finds in the writes ws
Opcodes(ws) == LET d == Decode(ws) IN {d[i].op : i \in 1..Len(d)}

\* a controller is attached and it is not waiting for the operand of a command
InSync == panel.attached /\ panel.pending = <<>>

\* this step is a call that reached the controller
CallStep == panel.attached /\ panel'.calls = panel.calls + 1

\* C11 as a step: from a controller in step with the driver, a completed poweroff is
\* the one write of 0xAE and leaves the panel off, a completed poweron is the one
\* write of 0xAF and leaves it on; show, contrast, invert and rotate, completed or
\* not, hold no 0xAE or 0xAF opcode and leave the panel as it was; a completed call
\* leaves the controller in step
C11_PowerStep ==
    (InSync /\ CallStep) =>
        /\ (lastCall'.op = "poweroff" /\ raised' = "none") =>
                bus' = << Write(oled.addr, <<CTRL_CMD, 174>>) >> /\ ~panel'.on
        /\ (lastCall'.op = "poweron" /\ raised' = "none") =>
                bus' = << Write(oled.addr, <<CTRL_CMD, 175>>) >> /\ panel'.on
        /\ lastCall'.op \in {"poweroff", "poweron"} /\ raised' # "none" =>
                bus' = <<>> /\ panel'.on = panel.on
        /\ lastCall'.op \in {"show", "contrast", "invert", "rotate"} =>
                Opcodes(bus') \cap {174, 175} = {} /\ panel'.on = panel.on
        /\ raised' = "none" => panel'.pending = <<>>

\* C11: after construction the panel is on; poweroff writes exactly the command 0xAE
\* and poweron exactly 0xAF; in a run without failure the panel is on or off as the
\* most recent of the two says; show, contrast (whose operand may be 0xAE or 0xAF),
\* invert and rotate never write a display-on or display-off command
C11_PowerState ==
    /\ (InitDone => InSync /\ panel.on)
    /\ [][C11_PowerStep]_vars

\* poweroff, then poweron completed: the panel is on again
C11_Witness ==
    /\ InSync /\ panel.calls = 2
    /\ lastCall.op = "poweron" /\ raised = "none" /\ panel.on
    /\ bus = << Write(oled.addr, <<CTRL_CMD, 175>>) >>

\* the first visible column of the controller's RAM: the 128 columns of a paged
\* panel are columns 2 .. 129 of 132
VisibleFrom(self) == IF IsPaged(self) /\ self.width = 128 THEN 2 ELSE 0

\* the visible region of the display RAM, page by page, as the buffer is laid out
VisibleRam(self, pan) ==
    [i \in 1..(self.pages * self.width) |->
        pan.ram[(i - 1) \div self.width][VisibleFrom(self) + ((i - 1) % self.width)]]

\* the writes ws are the first writes of the writes all, and not all of them
ProperPrefix(ws, all) == Len(ws) < Len(all) /\ ws = SubSeq(all, 1, Len(ws))

\* C12 as first stated: when the transport fails within a show, the call raises, what
\* was written is a proper prefix of the show's writes (nothing after the failed
\* write, no second attempt), the buffer is unchanged, the bytes already written are
\* on the panel and the rest of the panel is as before
C12_FailedShowStep ==
    (CallStep /\ lastCall'.op = "show") =>
        /\ raised' \in {"none", "OSError"}
        /\ raised' = "none" <=> bus' = show(oled)
        /\ raised' = "OSError" =>
            /\ ProperPrefix(bus', show(oled))
            /\ oled' = oled
            /\ \A i \in 1..Len(oled.buffer) :
                    VisibleRam(oled, panel')[i] =
                        IF i <= Len(DataBytes(bus')) THEN oled.buffer[i]
                        ELSE VisibleRam(oled, panel)[i]

C12_FailedShowInSyncStep ==
    (CallStep /\ lastCall'.op = "show") =>
        /\ raised' \in {"none", "OSError"}
        /\ raised' = "none" <=> bus' = show(oled)
        /\ raised' = "OSError" =>
            /\ ProperPrefix(bus', show(oled))
            /\ oled' = oled
            /\ InSync =>
                 \A i \in 1..Len(oled.buffer) :
                    VisibleRam(oled, panel')[i] =
                        IF i <= Len(DataBytes(bus')) THEN oled.buffer[i]
                        ELSE VisibleRam(oled, panel)[i]

C19_MirrorStep ==
    (InSync /\ CallStep /\ lastCall'.op = "show" /\ raised' = "none") =>
        VisibleRam(oled', panel') = oled'.buffer

RotatePair(self, flag) ==
    IF flag
    THEN << Write(self.addr, <<CTRL_CMD, 192>>), Write(self.addr, <<CTRL_CMD, 160>>) >>
    ELSE << Write(self.addr, <<CTRL_CMD, 200>>), Write(self.addr, <<CTRL_CMD, 161>>) >>

\* C13 as a step: on a controller in step, a completed rotate(false) writes 0xC8 and
\* 0xA1 and leaves the COM direction and the segment remap at these values whatever
\* they were, a completed rotate(true) writes 0xC0 and 0xA0 and leaves them there
C13_RotateStep ==
    (InSync /\ CallStep /\ lastCall'.op = "rotate" /\ raised' = "none") =>
        /\ bus' = RotatePair(oled, lastCall'.arg)
        /\ lastCall'.arg => panel'.com = 192 /\ panel'.seg = 160
        /\ ~lastCall'.arg => panel'.com = 200 /\ panel'.seg = 161

\* C13: the initialization of the paged driver writes 0xA1 and 0xC8 and leaves the
\* panel with them; rotate(false), after rotate(true) or after rotate(false) or after
\* anything else, writes 0xC8 and 0xA1 last and returns the panel to these values
C13_RotateRoundTrip ==
    /\ (InitDone /\ IsPaged(oled) =>
            /\ {200, 161} \subseteq Opcodes(bus)
            /\ Opcodes(bus) \cap {192, 160} = {}
            /\ panel.com = 200 /\ panel.seg = 161)
    /\ [][C13_RotateStep]_vars

\* the second of two calls was a completed rotate(false): the settings of the
\* initialization are back
C13_Witness ==
    /\ InSync /\ panel.calls = 2 /\ IsPaged(oled)
    /\ lastCall = [op |-> "rotate", arg |-> FALSE] /\ raised = "none"
    /\ bus = RotatePair(oled, FALSE)
    /\ panel.com = 200 /\ panel.seg = 161

\* C14: every rotate(flag) call, of the paged and of the auto-increment driver
\* alike, that the transport lets through writes one COM-direction and one
\* segment-remap command of the same orientation
C14_RotatePair ==
    (phase = "Active" /\ lastCall.op = "rotate" /\ raised # "OSError") =>
        bus = RotatePair(oled, lastCall.arg)

\* the contrast the profile of a display gives: 0x80 for the paged driver, the
\* second column of the profile table for the auto-increment driver
ProfileContrast(self) ==
    IF IsPaged(self) THEN 128
    ELSE ProfileTable(self.width, self.height, self.external_vcc)[2]

\* C18 as a step: on a controller in step, a completed contrast(v) has v in 0 .. 255,
\* is the two command writes 0x81 and v and leaves the contrast register at v; a
\* contrast call that fails, and every show, invert, rotate, poweroff and poweron,
\* completed or not, leaves the register as it was, and the latter write no 0x81
C18_ContrastStep ==
    (InSync /\ CallStep) =>
        /\ (lastCall'.op = "contrast" /\ raised' = "none") =>
                /\ IsByte(lastCall'.arg)
                /\ bus' = << Write(oled.addr, <<CTRL_CMD, 129>>),
                             Write(oled.addr, <<CTRL_CMD, lastCall'.arg>>) >>
                /\ panel'.contrast = lastCall'.arg
        /\ (lastCall'.op = "contrast" /\ raised' # "none") => panel'.contrast = panel.contrast
        /\ lastCall'.op \in {"show", "invert", "rotate", "poweroff", "poweron"} =>
                129 \notin Opcodes(bus') /\ panel'.contrast = panel.contrast

\* C18: contrast(v), 0 <= v <= 255, writes exactly the opcode 0x81 and the operand v;
\* the contrast register holds the profile's default after construction and, in a
\* run without failure, the value of the most recent contrast call; show, invert,
\* rotate, poweroff and poweron never change it
C18_ContrastRegister ==
    /\ (InitDone /\ panel.attached => panel.contrast = ProfileContrast(oled))
    /\ [][C18_ContrastStep]_vars

\* contrast(207), then a completed show: the register still holds 207
C18_Witness ==
    /\ InSync /\ panel.calls = 2
    /\ ShowDone
    /\ panel.contrast = 207 /\ ProfileContrast(oled) # 207

\* C15: the construction of a display whose height is no multiple of 8 fails, before
\* any transport write is issued; no such display is ever Active
C15_InvalidDimension ==
    (phase # "Uninitialized" /\ oled.height % 8 # 0) =>
        phase = "Failed" /\ raised # "none" /\ bus = <<>>

\* C16: the buffer of a constructed display has exactly (height / 8) * width bytes,
\* pages is height / 8, and the buffer holds a byte for every column of every one of
\* the height rows; fill, pixel, show, poweroff, poweron, contrast, invert and rotate
\* keep it so
C16_BufferLength ==
    phase = "Active" =>
        /\ 8 * Len(oled.buffer) = oled.height * oled.width
        /\ 8 * oled.pages = oled.height
        /\ \A y \in 0..(oled.height - 1) : ((y \div 8) + 1) * oled.width <= Len(oled.buffer)

\* C20 as a step: a show, poweroff, poweron, contrast, invert or rotate call leaves
\* the object as it was, buffer, width, height, pages, address and external_vcc; a
\* step of a constructed display that changes the object is a fill or a pixel call
\* and changes its buffer alone
C20_FrameStep ==
    /\ lastCall'.op \in {"show", "poweroff", "poweron", "contrast", "invert", "rotate"} =>
            oled' = oled
    /\ (phase = "Active" /\ oled' # oled) =>
            /\ lastCall'.op \in {"fill", "pixel"}
            /\ [oled' EXCEPT !.buffer = oled.buffer] = oled

\* C20: show, poweroff, poweron, contrast, invert and rotate change neither the
\* buffer nor width, height, pages, address, external_vcc; after construction only
\* fill and the drawing operations change the buffer
C20_FrameCondition == [][C20_FrameStep]_vars

\* a completed invert on a display whose buffer holds a drawn frame
C20_Witness ==
    /\ phase = "Active" /\ lastCall.op = "invert" /\ raised = "none" /\ bus # <<>>
    /\ \E i \in 1..Len(oled.buffer) : oled.buffer[i] # 0

\* C17: every completed show call transmitted all pages * width bytes of the buffer
\* it was called on, also when an equal buffer had been shown before, and two
\* completed shows of equal buffers made the same sequence of transport writes,
\* whatever calls came between them
C17_FullRefresh ==
    shown.tracked =>
        /\ \A s \in shown.seen :
                /\ DataBytes(s.bus) = s.buffer
                /\ Len(s.buffer) = oled.pages * oled.width
        /\ \A s, t \in shown.seen : s.buffer = t.buffer => s.bus = t.bus
        /\ ShowDone => [buffer |-> oled.buffer, bus |-> bus] \in shown.seen

\* a completed show of a buffer that had been shown before, after shows of another
\* buffer
C17_Witness ==
    /\ shown.tracked /\ shown.repeat /\ ShowDone
    /\ Cardinality(shown.seen) >= 2
    /\ DataBytes(bus) = oled.buffer

\* the positions in ws of the command writes a controller takes as the opcode op
OpcodeAt(ws, op) ==
    {i \in 1..Len(ws) :
        /\ IsCmdWrite(ws[i]) /\ ws[i].data[2] = op
        /\ LET d == Decode(SubSeq(ws, 1, i)) IN d[Len(d)].op = op}

\* C21: in the writes of a construction, as far as they went, every data write
\* comes after the display-on command 0xAF that ends the initialization sequence;
\* a construction that returned wrote 0xAF once, as the last of the commands before
\* the data, and after it exactly the writes of one show of the cleared buffer: the
\* buffer is all zero and the pages * width data bytes transmitted are all 0x00
C21_ClearedFrame ==
    lastCall.op = "init" =>
        /\ \A i \in 1..Len(bus) :
                IsDataWrite(bus[i]) => \E j \in OpcodeAt(bus, 175) : j < i
        /\ raised = "none" =>
            /\ Cardinality(OpcodeAt(bus, 175)) = 1
            /\ \A j \in OpcodeAt(bus, 175) :
                    /\ \A i \in 1..j : IsCmdWrite(bus[i])
                    /\ SubSeq(bus, j + 1, Len(bus)) = show(oled)
            /\ \A i \in 1..Len(oled.buffer) : oled.buffer[i] = 0
            /\ Len(oled.buffer) = oled.pages * oled.width
            /\ DataBytes(bus) = oled.buffer

\* a completed construction of the 96x16 auto-increment display, whose default
\* contrast operand is 0xAF too: 192 zero bytes follow the display-on command
C21_Witness ==
    /\ InitDone /\ phase = "Active" /\ ~IsPaged(oled)
    /\ oled.width = 96 /\ oled.height = 16 /\ ~oled.external_vcc
    /\ OperandsOf(bus, 129) = {<<175>>}
    /\ Cardinality(OpcodeAt(bus, 175)) = 1
    /\ Len(DataBytes(bus)) = 192
    /\ \A i \in 1..192 : DataBytes(bus)[i] = 0

====
